---------------------------- MODULE Spec2Model ----------------------------
(***************************************************************************)
(* A model of py_web_miner/scraping.py: the BaseScraper abstraction, its   *)
(* two acquisition strategies (RequestsScraper, SeleniumScraper), the      *)
(* session guard, and the text / link extraction helpers.                  *)
(*                                                                         *)
(* Python strings that the code inspects (proxy, response text, extracted  *)
(* text, href values) are sequences of one-character strings.  Optional    *)
(* values are sequences of length at most one: None is <<>>, a present     *)
(* value v is <<v>>.                                                       *)
(***************************************************************************)
EXTENDS Integers, Sequences, FiniteSets, TLC

VARIABLES
    pc,                 \* "new": no scraper yet; "ready": constructed; "failed": __init__ raised
    strategy,           \* "requests" | "selenium": the class being constructed
    user_agent,         \* self.user_agent
    screen_resolution,  \* self.screen_resolution
    proxy,              \* self.proxy
    browser,            \* self.browser (SeleniumScraper only)
    options,            \* self.options (SeleniumScraper only)
    web_driver,         \* self.web_driver: None or the opened mechanism with its configuration
    mech_used,          \* whether any fetch mechanism has ever been opened or operated on
    ops,                \* the operations the most recent call performed on a mechanism
    last,               \* the most recent call: its name, arguments and outcome
    lifecycle,          \* the most recent successful lifecycle call: "init" | "start" | "quit"
    html_doc,           \* extract_text: the parsed document handed to it
    text_pc,            \* extract_text: "idle" | "input" | "extracted" | "reprocessed"
    extracted,          \* extract_text: its return value
    reprocessed,        \* _process_text applied to the value extract_text returned
    link_doc,           \* extract_links: the parsed document's tags, in document order
    link_pc,            \* extract_links: "idle" | "loop" | "done"
    link_i,             \* extract_links: the position of the for loop
    result              \* extract_links: the result list

scraper_vars == <<pc, strategy, user_agent, screen_resolution, proxy, browser, options,
                  web_driver, mech_used, ops, last, lifecycle>>
text_vars == <<html_doc, text_pc, extracted, reprocessed>>
link_vars == <<link_doc, link_pc, link_i, result>>
vars == <<scraper_vars, text_vars, link_vars>>

---------------------------------------------------------------------------
(* Python values *)

None == <<>>
Some(v) == <<v>>

\* Python truthiness of an Optional[str]: None and "" are falsy.
\* Truthy is for the strings the model keeps whole (user agent, screen resolution),
\* TruthySeq for those kept as character sequences (proxy, response text, href).
Truthy(opt) == opt # None /\ opt[1] # ""
TruthySeq(opt) == opt # None /\ opt[1] # <<>>

Min(a, b) == IF a < b THEN a ELSE b

\* str.startswith
startswith(s, prefix) ==
    /\ Len(s) >= Len(prefix)
    /\ SubSeq(s, 1, Len(prefix)) = prefix

\* the `in` operator on strings
Contains(s, sub) ==
    \E i \in 1..(Len(s) - Len(sub) + 1) : SubSeq(s, i, i + Len(sub) - 1) = sub

\* The position of the first sep at or after i, or Len(s) + 1.
RECURSIVE FindFrom(_, _, _)
FindFrom(s, sep, i) ==
    IF i > Len(s) THEN Len(s) + 1
    ELSE IF s[i] = sep THEN i
    ELSE FindFrom(s, sep, i + 1)

\* str.split(sep) for a one-character separator: the parts between separators.
RECURSIVE SplitFrom(_, _, _)
SplitFrom(s, sep, i) ==
    LET j == FindFrom(s, sep, i)
    IN  IF j > Len(s) THEN <<SubSeq(s, i, Len(s))>>
        ELSE <<SubSeq(s, i, j - 1)>> \o SplitFrom(s, sep, j + 1)

split(s, sep) == SplitFrom(s, sep, 1)

\* All sequences over alphabet of length at most n.
RECURSIVE SeqsUpTo(_, _)
SeqsUpTo(alphabet, n) ==
    IF n = 0 THEN {<<>>}
    ELSE LET shorter == SeqsUpTo(alphabet, n - 1)
         IN  shorter \cup {Append(s, c) : s \in shorter, c \in alphabet}

---------------------------------------------------------------------------
(* Reference data and inputs *)

MaxProxyLen == 3

\* The user agent catalog read from the TSV file, and its weights.
MOST_COMMON_USER_AGENTS_STRINGS == <<"Mozilla/5.0 (Windows NT 10.0)", "Mozilla/5.0 (Macintosh)">>
MOST_COMMON_USER_AGENTS_WEIGHTS == <<2, 1>>

MOST_COMMON_SCREEN_RESOLUTIONS ==
    <<"1920,1080", "1366,768", "1536,864", "1440,900", "1600,900">>

\* random.choices(strings, weights, k=1)[0]: any entry of positive weight.
random_choices(strings, weights) ==
    {strings[i] : i \in {j \in 1..Len(strings) : weights[j] > 0}}

\* random.choice(seq): any entry.
random_choice(seq) == {seq[i] : i \in 1..Len(seq)}

\* Constructor arguments.
UserAgentArgs == {None, Some("custom-agent/1.0")}
ScreenResolutionArgs == {None, Some("800,600")}
ProxyArgs == {None} \cup {Some(p) : p \in SeqsUpTo({"h", ":"}, MaxProxyLen)}
BrowserArgs == {"chrome", " Firefox ", "opera"}

\* browser.lower().strip()
lower_strip(b) == IF b = " Firefox " THEN "firefox" ELSE b

\* The default `options` of SeleniumScraper.__init__.
DefaultOptions ==
    <<"--headless", "--incognito", "--no-sandbox", "--disable-dev-shm-usage",
      "--disable-extensions", "--disable-popup-blocking", "--disable-bundled-ppapi-flash",
      "--disable-plugins-discovery", "--disable-internal-flash",
      "--disable-client-side-phishing-detection",
      "--disable-component-extensions-with-background-pages", "--disable-default-apps",
      "--disable-extensions", "--disable-features=InterestFeedContentSuggestions",
      "--disable-features=Translate", "--hide-scrollbars", "--mute-audio",
      "--no-default-browser-check", "--no-first-run", "--ash-no-nudges",
      "--disable-search-engine-choice-screen">>

\* An option f"{flag}={value}"; the default flags carry no value the model reads.
Opt(flag, value) == [flag |-> flag, value |-> value]

\* HTTP responses: a status code and the response text.
requests_codes_ok == 200
Str_html == <<"<", "h", "t", "m", "l", ">">>
Str_body == <<"<", "b", "o", "d", "y">>
ResponseTexts ==
    { <<>>,
      <<"h", "i">>,
      Str_html,
      Str_body \o <<">">>,
      <<"<", "h", "t", "m", "l", " ", "l", ">">>,
      Str_html \o Str_body,
      <<"<", "b", "o", "d">>,
      <<"x">> \o Str_body }
Responses ==
    {[status |-> requests_codes_ok, text |-> t] : t \in {None} \cup {Some(b) : b \in ResponseTexts}}
    \cup {[status |-> s, text |-> Some(<<>>)] : s \in {204, 301, 404, 500}}
PageSources == {<<>>, Str_html \o Str_body \o <<">">>}

\* The record of a call: uniform fields, the unused ones at their defaults.
Call(op, was_live) ==
    [op |-> op, was_live |-> was_live, exc |-> "none", exc_status |-> 0,
     status |-> 0, text |-> None, ret |-> None, proxy_arg |-> None]

---------------------------------------------------------------------------
(* The session guard *)

\* Mutant: a wrapper that never raises.
check_web_driver_never(wd) == FALSE

\* check_web_driver_decorator: TRUE when the wrapper raises AttributeError.
check_web_driver_decorator(wd) == wd = None

\* The wrapper raising: the method body does not run.
GuardRaises(op) ==
    /\ last' = [Call(op, web_driver # None) EXCEPT !.exc = "AttributeError"]
    /\ ops' = <<>>
    /\ UNCHANGED <<pc, strategy, user_agent, screen_resolution, proxy, browser, options,
                   web_driver, mech_used, lifecycle>>

---------------------------------------------------------------------------
(* BaseScraper.__init__ *)

\* Mutant: `< 2` for `!= 2`, which lets a proxy of several colons through.
InvalidProxyFewerOnly(p) == TruthySeq(p) /\ Len(split(p[1], ":")) < 2

\* `proxy and len(proxy.split(":")) != 2`
InvalidProxy(p) == TruthySeq(p) /\ Len(split(p[1], ":")) # 2

InitRaises(proxy_arg) ==
    /\ pc' = "failed"
    /\ last' = [Call("init", FALSE) EXCEPT !.exc = "ValueError", !.proxy_arg = proxy_arg]
    /\ ops' = <<>>
    /\ UNCHANGED <<user_agent, screen_resolution, proxy, browser, options,
                   web_driver, mech_used, lifecycle>>

\* The fields BaseScraper.__init__ sets when it does not raise.
BaseScraper_init(ua_arg, res_arg, random_user_agent_flag, random_screen_resolution_flag, proxy_arg) ==
    /\ proxy' = proxy_arg
    /\ IF random_user_agent_flag
       THEN \E ua \in random_choices(MOST_COMMON_USER_AGENTS_STRINGS,
                                     MOST_COMMON_USER_AGENTS_WEIGHTS) :
                user_agent' = Some(ua)
       ELSE user_agent' = ua_arg
    /\ IF random_screen_resolution_flag
       THEN \E res \in random_choice(MOST_COMMON_SCREEN_RESOLUTIONS) :
                screen_resolution' = Some(res)
       ELSE screen_resolution' = res_arg
    /\ web_driver' = None

RequestsScraper_init ==
    /\ pc = "new"
    /\ strategy' = "requests"
    /\ \E ua_arg \in UserAgentArgs, res_arg \in ScreenResolutionArgs,
          rua \in BOOLEAN, rres \in BOOLEAN, proxy_arg \in ProxyArgs :
        IF InvalidProxy(proxy_arg)
        THEN InitRaises(proxy_arg)
        ELSE /\ BaseScraper_init(ua_arg, res_arg, rua, rres, proxy_arg)
             /\ pc' = "ready"
             /\ lifecycle' = "init"
             /\ last' = [Call("init", FALSE) EXCEPT !.proxy_arg = proxy_arg]
             /\ ops' = <<>>
             /\ UNCHANGED <<browser, options, mech_used>>
    /\ UNCHANGED <<text_vars, link_vars>>

\* The options SeleniumScraper.__init__ appends to list(options).
SeleniumOptions(res, ua, p) ==
    [i \in 1..Len(DefaultOptions) |-> Opt(DefaultOptions[i], "")]
    \o (IF Truthy(res) THEN <<Opt("--window-size", res[1])>> ELSE <<>>)
    \o (IF Truthy(ua) THEN <<Opt("--user-agent", ua[1])>> ELSE <<>>)
    \o (IF TruthySeq(p) THEN <<Opt("--proxy-server", p[1])>> ELSE <<>>)

SeleniumScraper_init ==
    /\ pc = "new"
    /\ strategy' = "selenium"
    /\ \E ua_arg \in UserAgentArgs, res_arg \in ScreenResolutionArgs,
          rua \in BOOLEAN, rres \in BOOLEAN, proxy_arg \in ProxyArgs,
          browser_arg \in BrowserArgs :
        IF InvalidProxy(proxy_arg)
        THEN InitRaises(proxy_arg)
        ELSE IF lower_strip(browser_arg) \notin {"chrome", "firefox"}
        THEN InitRaises(proxy_arg)
        ELSE /\ BaseScraper_init(ua_arg, res_arg, rua, rres, proxy_arg)
             /\ options' = SeleniumOptions(screen_resolution', user_agent', proxy')
             /\ browser' = lower_strip(browser_arg)
             /\ pc' = "ready"
             /\ lifecycle' = "init"
             /\ last' = [Call("init", FALSE) EXCEPT !.proxy_arg = proxy_arg]
             /\ ops' = <<>>
             /\ UNCHANGED mech_used
    /\ UNCHANGED <<text_vars, link_vars>>

---------------------------------------------------------------------------
(* refresh_user_agent, refresh_screen_resolution *)

\* Mutant: a refresh that also rewrites the live session's User-Agent.
refresh_user_agent_rebinds ==
    /\ pc = "ready"
    /\ \E ua \in random_choices(MOST_COMMON_USER_AGENTS_STRINGS,
                                MOST_COMMON_USER_AGENTS_WEIGHTS) :
           user_agent' = Some(ua)
    /\ web_driver' = IF web_driver = None THEN None
                     ELSE Some([web_driver[1] EXCEPT !.user_agent = user_agent'])
    /\ last' = Call("refresh_user_agent", web_driver # None)
    /\ ops' = <<>>
    /\ UNCHANGED <<pc, strategy, screen_resolution, proxy, browser, options,
                   mech_used, lifecycle>>
    /\ UNCHANGED <<text_vars, link_vars>>

refresh_user_agent ==
    /\ pc = "ready"
    /\ \E ua \in random_choices(MOST_COMMON_USER_AGENTS_STRINGS,
                                MOST_COMMON_USER_AGENTS_WEIGHTS) :
           user_agent' = Some(ua)
    /\ last' = Call("refresh_user_agent", web_driver # None)
    /\ ops' = <<>>
    /\ UNCHANGED <<pc, strategy, screen_resolution, proxy, browser, options,
                   web_driver, mech_used, lifecycle>>
    /\ UNCHANGED <<text_vars, link_vars>>

refresh_screen_resolution ==
    /\ pc = "ready"
    /\ \E res \in random_choice(MOST_COMMON_SCREEN_RESOLUTIONS) :
           screen_resolution' = Some(res)
    /\ last' = Call("refresh_screen_resolution", web_driver # None)
    /\ ops' = <<>>
    /\ UNCHANGED <<pc, strategy, user_agent, proxy, browser, options,
                   web_driver, mech_used, lifecycle>>
    /\ UNCHANGED <<text_vars, link_vars>>

---------------------------------------------------------------------------
(* start *)

\* The mechanism RequestsScraper.start opens: requests.session() with the
\* proxies and the User-Agent header it sets.
RequestsSession ==
    [kind |-> "session",
     proxies |-> IF TruthySeq(proxy) THEN proxy ELSE None,
     user_agent |-> IF Truthy(user_agent) THEN user_agent ELSE None,
     window_size |-> None]

\* The value of the last option with this flag, None when there is none.
OptionValue(opts, flag) ==
    LET at == {i \in 1..Len(opts) : opts[i].flag = flag}
    IN  IF at = {} THEN None
        ELSE Some(opts[CHOOSE i \in at : \A j \in at : j <= i].value)

\* The mechanism SeleniumScraper.start opens: the browser, given every option
\* of self.options as an argument.
SeleniumBrowser ==
    [kind |-> browser,
     proxies |-> OptionValue(options, "--proxy-server"),
     user_agent |-> OptionValue(options, "--user-agent"),
     window_size |-> OptionValue(options, "--window-size")]

RequestsScraper_start ==
    /\ pc = "ready" /\ strategy = "requests"
    /\ web_driver' = Some(RequestsSession)
    /\ mech_used' = TRUE
    /\ ops' = <<"requests.session">>
    /\ last' = Call("start", web_driver # None)
    /\ lifecycle' = "start"
    /\ UNCHANGED <<pc, strategy, user_agent, screen_resolution, proxy, browser, options>>
    /\ UNCHANGED <<text_vars, link_vars>>

SeleniumScraper_start ==
    /\ pc = "ready" /\ strategy = "selenium"
    /\ web_driver' = Some(SeleniumBrowser)
    /\ mech_used' = TRUE
    /\ ops' = <<"webdriver">>
    /\ last' = Call("start", web_driver # None)
    /\ lifecycle' = "start"
    /\ UNCHANGED <<pc, strategy, user_agent, screen_resolution, proxy, browser, options>>
    /\ UNCHANGED <<text_vars, link_vars>>

---------------------------------------------------------------------------
(* quit *)

RequestsScraper_quit ==
    /\ pc = "ready" /\ strategy = "requests"
    /\ IF check_web_driver_decorator(web_driver)
       THEN GuardRaises("quit")
       ELSE /\ ops' = <<"cookies.clear", "close">>
            /\ web_driver' = None
            /\ mech_used' = TRUE
            /\ last' = Call("quit", web_driver # None)
            /\ lifecycle' = "quit"
            /\ UNCHANGED <<pc, strategy, user_agent, screen_resolution, proxy, browser, options>>
    /\ UNCHANGED <<text_vars, link_vars>>

\* Mutant: a quit that releases the browser and keeps the handle.
SeleniumScraper_quit_keeps_handle ==
    /\ pc = "ready" /\ strategy = "selenium"
    /\ IF check_web_driver_decorator(web_driver)
       THEN GuardRaises("quit")
       ELSE /\ ops' = <<"delete_all_cookies", "quit">>
            /\ mech_used' = TRUE
            /\ last' = Call("quit", web_driver # None)
            /\ lifecycle' = "quit"
            /\ UNCHANGED <<pc, strategy, user_agent, screen_resolution, proxy, browser,
                           options, web_driver>>
    /\ UNCHANGED <<text_vars, link_vars>>

SeleniumScraper_quit ==
    /\ pc = "ready" /\ strategy = "selenium"
    /\ IF check_web_driver_decorator(web_driver)
       THEN GuardRaises("quit")
       ELSE /\ ops' = <<"delete_all_cookies", "quit">>
            /\ web_driver' = None
            /\ mech_used' = TRUE
            /\ last' = Call("quit", web_driver # None)
            /\ lifecycle' = "quit"
            /\ UNCHANGED <<pc, strategy, user_agent, screen_resolution, proxy, browser, options>>
    /\ UNCHANGED <<text_vars, link_vars>>

---------------------------------------------------------------------------
(* retrieve_html *)

\* requests' Response.raise_for_status: TRUE when it raises HTTPError.
raise_for_status(status) == 400 <= status /\ status < 600

\* f"<html>\n  <body>\n{cont}\n  </body>\n</html>"
Envelope(cont) ==
    Str_html \o <<"\n", " ", " ">> \o Str_body \o <<">", "\n">> \o cont
    \o <<"\n", " ", " ", "<", "/", "b", "o", "d", "y", ">", "\n",
         "<", "/", "h", "t", "m", "l", ">">>

\* Mutant: `or` for `and` between the two marker tests.
SuccessBodyEitherMissing(text) ==
    LET cont == IF TruthySeq(text) THEN text[1] ELSE <<>>
    IN  IF ~Contains(cont, Str_html) \/ ~Contains(cont, Str_body)
        THEN Envelope(cont)
        ELSE cont

\* The success branch of RequestsScraper.retrieve_html: the value returned for resp.text.
SuccessBody(text) ==
    LET cont == IF TruthySeq(text) THEN text[1] ELSE <<>>
    IN  IF ~Contains(cont, Str_html) /\ ~Contains(cont, Str_body)
        THEN Envelope(cont)
        ELSE cont

\* The outcome of RequestsScraper.retrieve_html for a response, as a call record.
RequestsOutcome(resp, was_live) ==
    LET c == [Call("retrieve_html", was_live) EXCEPT !.status = resp.status, !.text = resp.text]
    IN  IF resp.status = requests_codes_ok
        THEN [c EXCEPT !.ret = Some(SuccessBody(resp.text))]
        ELSE IF raise_for_status(resp.status)
        THEN [c EXCEPT !.exc = "HTTPError", !.exc_status = resp.status]
        ELSE c

RequestsScraper_retrieve_html ==
    /\ pc = "ready" /\ strategy = "requests"
    /\ IF check_web_driver_decorator(web_driver)
       THEN GuardRaises("retrieve_html")
       ELSE /\ \E delete_cookies_flag \in BOOLEAN :
                 ops' = (IF delete_cookies_flag THEN <<"cookies.clear">> ELSE <<>>) \o <<"get">>
            /\ \E resp \in Responses : last' = RequestsOutcome(resp, web_driver # None)
            /\ mech_used' = TRUE
            /\ UNCHANGED <<pc, strategy, user_agent, screen_resolution, proxy, browser,
                           options, web_driver, lifecycle>>
    /\ UNCHANGED <<text_vars, link_vars>>

\* BaseScraper.format: BeautifulSoup's prettify of the page, left uninterpreted.
format(html_body) == <<"prettify">> \o html_body

SeleniumScraper_retrieve_html ==
    /\ pc = "ready" /\ strategy = "selenium"
    /\ IF check_web_driver_decorator(web_driver)
       THEN GuardRaises("retrieve_html")
       ELSE /\ \E delete_cookies_flag \in BOOLEAN :
                 ops' = (IF delete_cookies_flag THEN <<"delete_all_cookies">> ELSE <<>>) \o <<"get">>
            /\ \E page_source \in PageSources :
                 last' = [Call("retrieve_html", web_driver # None) EXCEPT
                              !.ret = Some(format(page_source))]
            /\ mech_used' = TRUE
            /\ UNCHANGED <<pc, strategy, user_agent, screen_resolution, proxy, browser,
                           options, web_driver, lifecycle>>
    /\ UNCHANGED <<text_vars, link_vars>>

---------------------------------------------------------------------------
(* The scraper's specification *)

TextIdle ==
    /\ html_doc = None /\ text_pc = "idle" /\ extracted = <<>> /\ reprocessed = <<>>

LinksIdle ==
    /\ link_doc = <<>> /\ link_pc = "idle" /\ link_i = 0 /\ result = <<>>

ScraperNew ==
    /\ pc = "new"
    /\ strategy = "none"
    /\ user_agent = None
    /\ screen_resolution = None
    /\ proxy = None
    /\ browser = "none"
    /\ options = <<>>
    /\ web_driver = None
    /\ mech_used = FALSE
    /\ ops = <<>>
    /\ last = Call("none", FALSE)
    /\ lifecycle = "none"

Init == ScraperNew /\ TextIdle /\ LinksIdle

Next ==
    \/ RequestsScraper_init
    \/ SeleniumScraper_init
    \/ refresh_user_agent
    \/ refresh_screen_resolution
    \/ RequestsScraper_start
    \/ SeleniumScraper_start
    \/ RequestsScraper_quit
    \/ SeleniumScraper_quit
    \/ RequestsScraper_retrieve_html
    \/ SeleniumScraper_retrieve_html

Spec == Init /\ [][Next]_vars

---------------------------------------------------------------------------
(* _process_text, extract_text *)

MaxTextLen == 7

NL == "\n"

\* The number of consecutive newlines of s from position i on.
RECURSIVE RunLen(_, _)
RunLen(s, i) ==
    IF i > Len(s) \/ s[i] # NL THEN 0 ELSE 1 + RunLen(s, i + 1)

\* re.sub(pattern="\n{lo,hi}", repl=repl, string=s) from position i on: the
\* leftmost matches, each greedy (as many newlines as the run has, up to hi),
\* none overlapping; the search goes on right after a match.
RECURSIVE SubFrom(_, _, _, _, _)
SubFrom(s, i, lo, hi, repl) ==
    IF i > Len(s) THEN <<>>
    ELSE LET k == RunLen(s, i)
         IN  IF k >= lo
             THEN repl \o SubFrom(s, i + Min(k, hi), lo, hi, repl)
             ELSE <<s[i]>> \o SubFrom(s, i + 1, lo, hi, repl)

\* re.sub for "\n{lo,hi}"; "\n{lo,}" is hi = Len(s), which no run exceeds.
re_sub(lo, hi, repl, s) == SubFrom(s, 1, lo, hi, repl)

\* Mutant: the last rule as "\n{2}" for "\n{2,3}".
_process_text_pairs_only(extracted_text) ==
    LET t1 == re_sub(5, Len(extracted_text), <<NL, NL, NL>>, extracted_text)
        t2 == re_sub(4, 4, <<NL, NL>>, t1)
    IN  re_sub(2, 2, <<NL>>, t2)

_process_text(extracted_text) ==
    LET t1 == re_sub(5, Len(extracted_text), <<NL, NL, NL>>, extracted_text)
        t2 == re_sub(4, 4, <<NL, NL>>, t1)
    IN  re_sub(2, 3, <<NL>>, t2)

\* A parsed document: its body, if any, is a sequence of nodes, each a text
\* node or an element holding text.
Node(name, text) == [name |-> name, text |-> text]

\* tag.decompose() for every node tree.body.select(name) finds.
Decompose(nodes, name) == SelectSeq(nodes, LAMBDA n : n.name # name)

\* tree.body.get_text(): the text of every node, in document order.
RECURSIVE get_text(_)
get_text(nodes) ==
    IF nodes = <<>> THEN <<>> ELSE Head(nodes).text \o get_text(Tail(nodes))

extract_text_of(doc) ==
    IF doc.body = None THEN <<>>
    ELSE _process_text(get_text(Decompose(Decompose(doc.body[1], "script"), "style")))

HtmlDocs ==
    {[body |-> None]}
    \cup {[body |-> Some(lead \o <<Node("#text", t)>>)] :
            lead \in {<<>>, <<Node("script", <<"x">>)>>, <<Node("style", <<"x">>)>>},
            t \in SeqsUpTo({NL, "a"}, MaxTextLen)}

extract_text ==
    /\ text_pc = "input"
    /\ extracted' = extract_text_of(html_doc[1])
    /\ text_pc' = "extracted"
    /\ UNCHANGED <<html_doc, reprocessed>>
    /\ UNCHANGED <<scraper_vars, link_vars>>

\* The collapse rules run again on what extract_text returned.
process_text_again ==
    /\ text_pc = "extracted"
    /\ reprocessed' = _process_text(extracted)
    /\ text_pc' = "reprocessed"
    /\ UNCHANGED <<html_doc, extracted>>
    /\ UNCHANGED <<scraper_vars, link_vars>>

InitText ==
    /\ ScraperNew /\ LinksIdle
    /\ html_doc \in {Some(d) : d \in HtmlDocs}
    /\ text_pc = "input"
    /\ extracted = <<>>
    /\ reprocessed = <<>>

NextText == extract_text \/ process_text_again

SpecText == InitText /\ [][NextText]_vars

---------------------------------------------------------------------------
(* extract_links *)

MaxTags == 3

Tag(name, href) == [name |-> name, href |-> href]

Str_http == <<"h", "t", "t", "p">>
Href_https_a == Str_http \o <<"s", ":", "/", "/", "a">>
Href_http_b == Str_http \o <<":", "/", "/", "b">>
Href_rel == <<"/", "r", "e", "l">>

Hrefs ==
    { None, Some(<<>>), Some(Href_https_a), Some(Href_http_b), Some(Href_rel),
      Some(<<"m", "a", "i", "l", "t", "o", ":", "x">>), Some(<<"#", "f">>),
      Some(<<"h", "t", "t">>), Some(<<"H", "t", "t", "p">>) }

Tags ==
    {Tag("a", h) : h \in Hrefs} \cup {Tag("link", Some(Href_http_b)), Tag("p", None)}

\* tree.find_all(name)
find_all(doc, name) == SelectSeq(doc, LAMBDA t : t.name = name)

\* Mutant: a loop that skips a link already in the result.
RECURSIVE extract_links_loop_dedup(_, _, _)
extract_links_loop_dedup(tags, i, res) ==
    IF i > Len(tags) THEN res
    ELSE LET link == tags[i].href
         IN  IF /\ TruthySeq(link) /\ startswith(link[1], Str_http)
                /\ \A k \in 1..Len(res) : res[k] # link[1]
             THEN extract_links_loop_dedup(tags, i + 1, Append(res, link[1]))
             ELSE extract_links_loop_dedup(tags, i + 1, res)

\* The for loop of extract_links from its i-th tag on, res the list so far.
RECURSIVE extract_links_loop(_, _, _)
extract_links_loop(tags, i, res) ==
    IF i > Len(tags) THEN res
    ELSE LET link == tags[i].href
         IN  IF TruthySeq(link) /\ startswith(link[1], Str_http)
             THEN extract_links_loop(tags, i + 1, Append(res, link[1]))
             ELSE extract_links_loop(tags, i + 1, res)

extract_links ==
    /\ link_pc = "loop"
    /\ result' = extract_links_loop(find_all(link_doc, "a"), 1, <<>>)
    /\ link_i' = Len(find_all(link_doc, "a")) + 1
    /\ link_pc' = "done"
    /\ UNCHANGED link_doc
    /\ UNCHANGED <<scraper_vars, text_vars>>

InitLinks ==
    /\ ScraperNew /\ TextIdle
    /\ link_doc \in SeqsUpTo(Tags, MaxTags)
    /\ link_pc = "loop"
    /\ link_i = 1
    /\ result = <<>>

NextLinks == extract_links

SpecLinks == InitLinks /\ [][NextLinks]_vars

---------------------------------------------------------------------------
(* Properties *)

Live == web_driver # None

\* An Optional[str] as the code reads it: a falsy value counts as absent.
Effective(opt) == IF Truthy(opt) THEN opt ELSE None
EffectiveSeq(opt) == IF TruthySeq(opt) THEN opt ELSE None

ColonCount(s) == Cardinality({i \in 1..Len(s) : s[i] = ":"})

\* C1: a retrieve_html or quit call made while the session is not live (never
\* started, or quit since the last start) raises the guard's AttributeError,
\* performs no operation on any mechanism and leaves web_driver empty, in both
\* strategies.
C1_GuardedWhenNotLive ==
    (last.op \in {"retrieve_html", "quit"} /\ ~last.was_live)
        => /\ last.exc = "AttributeError"
           /\ ops = <<>>
           /\ web_driver = None

\* A retrieve_html call after start and quit, refused by the guard.
C1_Witness ==
    /\ strategy = "selenium"
    /\ lifecycle = "quit"
    /\ mech_used
    /\ last.op = "retrieve_html"
    /\ last.exc = "AttributeError"

\* C2: web_driver is empty after construction, non-empty after a successful
\* start and empty again after a successful quit, so it is non-empty exactly
\* when the most recent successful lifecycle call was start; a retrieve_html
\* step never changes it.
C2_HandleFollowsLifecycle ==
    /\ [](pc = "ready" => (Live <=> lifecycle = "start"))
    /\ [](lifecycle \in {"init", "quit"} => web_driver = None)
    /\ [][last'.op = "retrieve_html" => web_driver' = web_driver]_vars

\* A successful retrieve_html on a live session, the handle still in place.
C2_Witness ==
    /\ lifecycle = "start"
    /\ Live
    /\ last.op = "retrieve_html"
    /\ last.exc = "none"
    /\ last.ret # None

\* C3: in RequestsScraper, every response whose status is not the success
\* status makes retrieve_html raise HTTPError carrying that status; it never
\* returns normally for such a response.
C3_NonSuccessRaisesHttpError ==
    (/\ strategy = "requests"
     /\ last.op = "retrieve_html"
     /\ last.was_live
     /\ last.status # requests_codes_ok)
        => /\ last.exc = "HTTPError"
           /\ last.exc_status = last.status

\* C7 as stated: a proxy string with no colon or more than one colon makes
\* construction raise before any mechanism is opened, and a constructed
\* scraper has no proxy or a proxy of exactly one host:port pair.
C7_AnyStringWithoutOneColonRejected ==
    /\ (last.op = "init" /\ last.proxy_arg # None /\ ColonCount(last.proxy_arg[1]) # 1)
           => (pc = "failed" /\ last.exc = "ValueError")
    /\ pc = "ready" => (proxy = None \/ ColonCount(proxy[1]) = 1)

\* C7: a non-empty proxy string with no colon or more than one colon makes
\* construction raise ValueError, with no mechanism opened and no operation
\* performed on one; a constructed scraper has no proxy (None or the empty
\* string) or a proxy that splits at its one colon into exactly two parts.
C7_NonEmptyProxyValidated ==
    /\ (last.op = "init" /\ TruthySeq(last.proxy_arg) /\ ColonCount(last.proxy_arg[1]) # 1)
           => /\ pc = "failed"
              /\ last.exc = "ValueError"
              /\ web_driver = None
              /\ ~mech_used
              /\ ops = <<>>
    /\ pc = "ready" => (~TruthySeq(proxy) \/ ColonCount(proxy[1]) = 1)

\* A construction refused for a proxy of two colons.
C7_Witness ==
    /\ pc = "failed"
    /\ last.op = "init"
    /\ last.exc = "ValueError"
    /\ last.proxy_arg # None
    /\ ColonCount(last.proxy_arg[1]) = 2

\* C8 as stated: while the session is live no operation changes user_agent,
\* screen_resolution or proxy.
C8_IdentityFieldsFixedWhileLive ==
    [][(Live /\ Live')
        => <<user_agent, screen_resolution, proxy>>' = <<user_agent, screen_resolution, proxy>>]_vars

\* C8: while a session is live, no operation other than a further start
\* changes what the mechanism was configured with, and none changes proxy; the
\* refresh operations, which are not guarded, change only the fields
\* user_agent and screen_resolution.
C8_SessionConfigurationFixedWhileLive ==
    [][(Live /\ Live' /\ last'.op # "start")
        => (web_driver' = web_driver /\ proxy' = proxy)]_vars

\* A refresh on a live session: the field now differs from the session's user agent.
C8_Witness ==
    /\ Live
    /\ last.op = "refresh_user_agent"
    /\ last.was_live
    /\ web_driver[1].user_agent # None
    /\ web_driver[1].user_agent # user_agent

\* C9: in both strategies the mechanism start opens is configured with the
\* user agent, the window size (SeleniumScraper) and the proxy the scraper
\* holds at the moment start is called.
C9_StartUsesCurrentIdentity ==
    (last.op = "start" /\ Live)
        => /\ web_driver[1].user_agent = Effective(user_agent)
           /\ web_driver[1].proxies = EffectiveSeq(proxy)
           /\ strategy = "selenium"
                  => web_driver[1].window_size = Effective(screen_resolution)

\* ret is body inside an envelope that opens with <html> and a <body> tag and
\* closes with </body> and </html>.
IsEnveloped(ret, body) ==
    \E i \in 0..Len(ret), j \in 0..Len(ret) :
        /\ i <= j
        /\ SubSeq(ret, i + 1, j) = body
        /\ startswith(SubSeq(ret, 1, i), Str_html)
        /\ Contains(SubSeq(ret, 1, i), Str_body \o <<">">>)
        /\ Contains(SubSeq(ret, j + 1, Len(ret)), <<"<", "/", "b", "o", "d", "y", ">">>)
        /\ Contains(SubSeq(ret, j + 1, Len(ret)), <<"<", "/", "h", "t", "m", "l", ">">>)

\* C10: on the success status RequestsScraper.retrieve_html returns the
\* response text verbatim exactly when it contains "<html>" or "<body";
\* otherwise it returns the text inside an html/body envelope; either way the
\* value returned contains "<html>" or "<body".
C10_EnvelopeUnlessMarked ==
    (/\ strategy = "requests"
     /\ last.op = "retrieve_html"
     /\ last.was_live
     /\ last.status = requests_codes_ok)
        => LET body == IF last.text = None THEN <<>> ELSE last.text[1]
               marked == Contains(body, Str_html) \/ Contains(body, Str_body)
           IN  /\ last.exc = "none"
               /\ last.ret # None
               /\ marked <=> (last.ret[1] = body)
               /\ ~marked => IsEnveloped(last.ret[1], body)
               /\ Contains(last.ret[1], Str_html) \/ Contains(last.ret[1], Str_body)

\* A plain-text response returned inside the envelope.
C10_Witness ==
    /\ strategy = "requests"
    /\ last.op = "retrieve_html"
    /\ last.status = requests_codes_ok
    /\ last.text = Some(<<"h", "i">>)
    /\ last.ret # None
    /\ last.ret[1] # <<"h", "i">>
    /\ Contains(last.ret[1], <<"h", "i">>)

\* The number of newlines a maximal run of k newlines is said to become.
Tier(k) == IF k >= 5 THEN 3 ELSE IF k = 4 THEN 2 ELSE IF k >= 2 THEN 1 ELSE k

\* s from position i on, every maximal run of newlines replaced by Tier of its length.
RECURSIVE TieredFrom(_, _)
TieredFrom(s, i) ==
    IF i > Len(s) THEN <<>>
    ELSE IF s[i] = NL
    THEN [n \in 1..Tier(RunLen(s, i)) |-> NL] \o TieredFrom(s, i + RunLen(s, i))
    ELSE <<s[i]>> \o TieredFrom(s, i + 1)

\* The text of the body outside its script and style elements.
BodyText(doc) ==
    get_text(SelectSeq(doc.body[1], LAMBDA n : n.name \notin {"script", "style"}))

\* C4: in what extract_text returns, a run of 5 or more newlines of the body
\* text has become 3 newlines, a run of 4 has become 2, a run of 2 or 3 has
\* become 1, and everything else is unchanged.
C4_TieredCollapse ==
    (text_pc = "extracted" /\ html_doc[1].body # None)
        => extracted = TieredFrom(BodyText(html_doc[1]), 1)

\* C6: the collapse rules, applied in their order to text that is already
\* their output, return it unchanged.
C6_CollapseIdempotent ==
    text_pc = "reprocessed" => reprocessed = extracted

\* The rules run twice on a body text with a run of five newlines.
C6_Witness ==
    /\ text_pc = "reprocessed"
    /\ html_doc = Some([body |-> Some(<<Node("#text", <<"a", NL, NL, NL, NL, NL, "a">>)>>)])
    /\ extracted # <<"a", NL, NL, NL, NL, NL, "a">>
    /\ reprocessed = extracted

BeginsWithHttp(h) ==
    Len(h) >= 4 /\ h[1] = "h" /\ h[2] = "t" /\ h[3] = "t" /\ h[4] = "p"

\* The href values of the anchors of doc that begin with "http", in document order.
HttpAnchorHrefs(doc) ==
    LET kept == SelectSeq(doc, LAMBDA t : /\ t.name = "a"
                                          /\ t.href # None
                                          /\ BeginsWithHttp(t.href[1]))
    IN  [k \in 1..Len(kept) |-> kept[k].href[1]]

\* C5: extract_links returns exactly the href values of the document's anchor
\* elements that begin with "http", in document order, duplicates kept;
\* anchors with no href, an empty href or another href contribute nothing.
C5_LinksAreHttpAnchorHrefs ==
    link_pc = "done" => result = HttpAnchorHrefs(link_doc)

\* Anchors https://a, /rel, http://b give [https://a, http://b].
C5_Witness ==
    /\ link_pc = "done"
    /\ link_doc = <<Tag("a", Some(Href_https_a)), Tag("a", Some(Href_rel)),
                    Tag("a", Some(Href_http_b))>>
    /\ result = <<Href_https_a, Href_http_b>>

=============================================================================
